---- MODULE Spec2Model ----
(***************************************************************************)
(* The notebook "Going to Mars with Python using poliastro" as a state     *)
(* machine: fifteen code cells run by one kernel, in document order.       *)
(* Every cell is a sequence of statements; a statement reads names, calls  *)
(* at most one library function and binds names.  A raised exception ends  *)
(* the run.                                                                *)
(*                                                                         *)
(* Times are exact: a Time is [s, f], s whole TAI seconds since            *)
(* 2000-01-01 00:00:00 and f a numerator over Den = N - 1, the             *)
(* denominator the N-point linspace of time_range needs.  Positions and    *)
(* velocities are abstracted to small residues, and the two-body flow to   *)
(* an invertible kick-drift map on them.                                   *)
(***************************************************************************)
EXTENDS Integers, Sequences, FiniteSets, TLC

\* ------------------------------------------------------------ bounds
\* Positions are 0 .. MaxPos-1 and velocities 0 .. MaxVel-1.
MaxPos == 3
MaxVel == 4

Pos == 0 .. (MaxPos - 1)
Vel == 0 .. (MaxVel - 1)
States == [r : Pos, v : Vel]

\* ------------------------------------------------------------ cell 3 data
N == 50
Den == N - 1

LaunchCivil == [y |-> 2011, mo |-> 11, d |-> 26, h |-> 15, mi |-> 2]
ArrivalCivil == [y |-> 2012, mo |-> 8, d |-> 6, h |-> 5, mi |-> 17]

\* ------------------------------------------------------------ astropy time
\* Days from 2000-01-01 to the civil date y-mo-d (proleptic Gregorian).
DaysFromCivil(y, mo, d) ==
    LET yy  == IF mo <= 2 THEN y - 1 ELSE y
        era == yy \div 400
        yoe == yy - era * 400
        mp  == (mo + 9) % 12
        doy == (153 * mp + 2) \div 5 + d - 1
        doe == yoe * 365 + yoe \div 4 - yoe \div 100 + doy
    IN  era * 146097 + doe - 719468 - 10957

\* The civil date of a day number (the inverse of DaysFromCivil).
CivilFromDays(days) ==
    LET z   == days + 10957 + 719468
        era == z \div 146097
        doe == z - era * 146097
        yoe == (doe - doe \div 1460 + doe \div 36524 - doe \div 146096) \div 365
        doy == doe - (365 * yoe + yoe \div 4 - yoe \div 100)
        mp  == (5 * doy + 2) \div 153
        d   == doy - (153 * mp + 2) \div 5 + 1
        mo  == IF mp < 10 THEN mp + 3 ELSE mp - 9
        y   == yoe + era * 400 + (IF mo <= 2 THEN 1 ELSE 0)
    IN  [y |-> y, mo |-> mo, d |-> d]

\* TAI - UTC in seconds on a UTC day (the leap second table, 1999 .. 2017).
TaiMinusUtc(day) ==
    IF day >= DaysFromCivil(2017, 1, 1) THEN 37
    ELSE IF day >= DaysFromCivil(2015, 7, 1) THEN 36
    ELSE IF day >= DaysFromCivil(2012, 7, 1) THEN 35
    ELSE IF day >= DaysFromCivil(2009, 1, 1) THEN 34
    ELSE IF day >= DaysFromCivil(2006, 1, 1) THEN 33
    ELSE 32

\* The TAI second at which UTC day `day` starts.
DayStartTai(day) == day * 86400 + TaiMinusUtc(day)

\* time.Time("y-mo-d h:mi", scale="utc")
TimeUtc(c) ==
    [s |-> DayStartTai(DaysFromCivil(c.y, c.mo, c.d)) + c.h * 3600 + c.mi * 60,
     f |-> 0]

\* Time - Time: the elapsed TAI duration, a TimeDelta [s, f].
TimeSub(a, b) ==
    LET num == (a.s - b.s) * Den + (a.f - b.f)
    IN  [s |-> num \div Den, f |-> num % Den]

\* Time + TimeDelta
TimeAdd(t, dt) ==
    LET f == t.f + dt.f
    IN  [s |-> t.s + dt.s + f \div Den, f |-> f % Den]

\* TimeDelta * (i / n), for a whole-second TimeDelta and n = Den.
DeltaFraction(dt, i, n) ==
    [s |-> (dt.s * i) \div n, f |-> (dt.s * i) % n]

TimeLess(a, b) == a.s < b.s \/ (a.s = b.s /\ a.f < b.f)

ZeroTime == [s |-> 0, f |-> 0]

\* The UTC day a TAI instant falls in.
UtcDayOf(t) ==
    LET g == (t.s - TaiMinusUtc(t.s \div 86400)) \div 86400
    IN  IF DayStartTai(g) > t.s THEN g - 1 ELSE g

\* The iso rendering of a UTC Time to the millisecond:
\* 'y-mo-d h:mi:sec.ms' as the record of its fields.
FormatIso(t) ==
    LET day == UtcDayOf(t)
        sod == t.s - DayStartTai(day)
        c   == CivilFromDays(day)
        h   == IF sod >= 86400 THEN 23 ELSE sod \div 3600
        mi  == IF sod >= 86400 THEN 59 ELSE (sod % 3600) \div 60
        sec == IF sod >= 86400 THEN 60 ELSE sod % 60
    IN  [y |-> c.y, mo |-> c.mo, d |-> c.d, h |-> h, mi |-> mi, sec |-> sec,
         ms |-> (2 * t.f * 1000 + Den) \div (2 * Den)]

\* TimeDelta.to(u.h) as displayed: whole hours and eight decimals.
ToHours(dt) ==
    [whole |-> dt.s \div 3600,
     dec8  |-> (2 * ((dt.s % 3600) * 250000) + 9) \div 18]

\* ------------------------------------------------------------ poliastro.util
\* time_range(start, end=end, periods=n): start + (end - start) * linspace(0, 1, n)
time_range(start, end, periods) ==
    [i \in 1 .. periods |->
        TimeAdd(start, DeltaFraction(TimeSub(end, start), i - 1, periods - 1))]

\* ------------------------------------------------------------ two-body flow
\* The attractor: the Sun and its gravitational parameter.
Sun == [name |-> "Sun", k |-> 1]

\* One tick (1/Den s) of motion about an attractor of parameter k: drift,
\* then a kick towards the attractor.  A bijection on States.
Step(k, st) ==
    LET r2 == (st.r + st.v) % MaxPos
    IN  [r |-> r2, v |-> (st.v + MaxVel - ((k * r2) % MaxVel)) % MaxVel]

RECURSIVE StepN(_, _, _)
StepN(k, st, n) == IF n = 0 THEN st ELSE StepN(k, Step(k, st), n - 1)

RECURSIVE CycleLen(_, _, _, _)
CycleLen(k, st0, st, n) ==
    IF Step(k, st) = st0 THEN n ELSE CycleLen(k, st0, Step(k, st), n + 1)

RECURSIVE Gcd(_, _)
Gcd(a, b) == IF b = 0 THEN a ELSE Gcd(b, a % b)

RECURSIVE LcmOver(_, _)
LcmOver(k, S) ==
    IF S = {} THEN 1
    ELSE LET st == CHOOSE x \in S : TRUE
             l  == LcmOver(k, S \ {st})
             c  == CycleLen(k, st, st, 1)
         IN  (l \div Gcd(l, c)) * c

\* The number of ticks after which every orbit about the Sun closes.
Period == LcmOver(Sun.k, States)

\* The ticks in a Time or TimeDelta, modulo the period.
Ticks(dt) == (((dt.s % Period) * (Den % Period)) + dt.f) % Period

\* Orbit.from_vectors(attractor, r, v, epoch)
from_vectors(attractor, r, v, epoch) ==
    [attractor |-> attractor.name, k |-> attractor.k, r |-> r, v |-> v,
     epoch |-> epoch]

\* propagate(orbit, time_of_flight) for one time delta: the state reached.
propagate1(orbit, dt) == StepN(orbit.k, [r |-> orbit.r, v |-> orbit.v], Ticks(dt))

\* propagate(orbit, TimeDelta array): the positions reached, one per delta.
propagate(orbit, dts) == [i \in 1 .. Len(dts) |-> propagate1(orbit, dts[i]).r]

\* The velocity pairs (va, vb) of the orbits that lead from r0 to rf in tof.
LambertSolutions(k, r0, rf, tof) ==
    {p \in Vel \X Vel :
        StepN(k, [r |-> r0, v |-> p[1]], Ticks(tof)) = [r |-> rf, v |-> p[2]]}

RECURSIVE SetToSeq(_)
SetToSeq(S) ==
    IF S = {} THEN << >>
    ELSE LET m == CHOOSE x \in S : \A y \in S : x[1] <= y[1]
         IN  <<m>> \o SetToSeq(S \ {m})

\* iod.lambert(k, r0, r, tof): the solutions, in order of departure velocity.
lambert(k, r0, rf, tof) == SetToSeq(LambertSolutions(k, r0, rf, tof))

\* ------------------------------------------------------------ ephemeris
\* The barycentric state of a body at a time, from the kernel data `kern`
\* (the state of each body at time zero).
BodyState(kern, body, t) == StepN(Sun.k, kern[body], Ticks(t))

\* get_body_barycentric_posvel(body, times): (positions, velocities)
get_body_barycentric_posvel(kern, body, times) ==
    [rr |-> [i \in 1 .. Len(times) |-> BodyState(kern, body, times[i]).r],
     vv |-> [i \in 1 .. Len(times) |-> BodyState(kern, body, times[i]).v]]

\* The data astropy uses for a source: the JPL kernel file, or the
\* built-in approximation (every body at rest at the origin).
EphemerisData(source, kern) ==
    IF source = "jpl" THEN kern
    ELSE [earth |-> [r |-> 0, v |-> 0], mars |-> [r |-> 0, v |-> 0]]

\* ------------------------------------------------------------ the script
VARIABLES
    kernel,           \* the JPL kernel file: each body's state at time zero
    pc,               \* the next code cell, 1 .. 15; 16 after the last
    status,           \* "running", "done" or "failed"
    execution_count,  \* the kernel's counter: the last In[n] handed out
    In,               \* the execution count each cell was run under (0: not run)
    runs,             \* how many times each cell was run
    bound,            \* the names bound in the kernel's namespace
    v,                \* the values of the names
    calls,            \* the library calls made so far, in order
    raised,           \* the exceptions raised so far, in order
    error,            \* the exception that ended the run ("none": none)
    prev              \* the Lambert calls of an earlier run of the script

vars == <<kernel, pc, status, execution_count, In, runs, bound, v, calls, raised, error, prev>>

Cells == 1 .. 15

NoOrbit == [attractor |-> "none", k |-> 0, r |-> 0, v |-> 0, epoch |-> ZeroTime]

\* The namespace of a fresh kernel.
FreshValues ==
    [ephemeris |-> "builtin", N |-> 0,
     date_launch |-> ZeroTime, date_arrival |-> ZeroTime, tof |-> ZeroTime,
     shown_tof |-> [whole |-> 0, dec8 |-> 0],
     times_vector |-> << >>, shown_times |-> << >>,
     rr_earth |-> << >>, vv_earth |-> << >>, rr_mars |-> << >>, vv_mars |-> << >>,
     lookups |-> << >>,
     r0 |-> 0, rf |-> 0, lambert_args |-> << >>, solutions |-> << >>,
     va |-> 0, vb |-> 0, ss0_trans |-> NoOrbit, ssf_trans |-> NoOrbit,
     color_earth0 |-> "", color_earthf |-> "", color_mars0 |-> "",
     color_marsf |-> "", color_sun |-> "", color_orbit |-> "", color_trans |-> "",
     fig |-> [title |-> "", shown |-> FALSE],
     frame |-> [attractor |-> "none", trajectories |-> << >>, view |-> FALSE],
     deltas |-> << >>, msl |-> << >>]

\* A statement: what it does, the names it reads and binds, and whether it
\* calls into a library (a call that may raise).
Stmt(op, reads, binds, ext) ==
    [op |-> op, reads |-> reads, binds |-> binds, ext |-> ext]

Colors ==
    {"color_earth0", "color_earthf", "color_mars0", "color_marsf", "color_sun",
     "color_orbit", "color_trans"}

\* The code cells, in document order.
Prog ==
    << \* cell 1
       << Stmt("import", {}, {"np", "u", "time", "iod", "Sun", "Orbit",
                              "propagate", "time_range"}, TRUE) >>,
       \* cell 2
       << Stmt("import", {}, {"solar_system_ephemeris",
                              "get_body_barycentric_posvel"}, TRUE),
          Stmt("set_ephemeris", {"solar_system_ephemeris"}, {}, TRUE) >>,
       \* cell 3
       << Stmt("N", {}, {"N"}, FALSE),
          Stmt("date_launch", {"time"}, {"date_launch"}, FALSE),
          Stmt("date_arrival", {"time"}, {"date_arrival"}, FALSE),
          Stmt("tof", {"date_arrival", "date_launch"}, {"tof"}, FALSE),
          Stmt("show_tof", {"tof", "u"}, {}, FALSE) >>,
       \* cell 4
       << Stmt("time_range", {"time_range", "date_launch", "date_arrival", "N"},
               {"times_vector"}, TRUE),
          Stmt("show_times", {"times_vector"}, {}, FALSE) >>,
       \* cell 5
       << Stmt("lookup_earth", {"get_body_barycentric_posvel", "times_vector"},
               {"rr_earth", "vv_earth"}, TRUE) >>,
       \* cells 6, 7
       << Stmt("show", {"rr_earth"}, {}, FALSE) >>,
       << Stmt("show", {"vv_earth"}, {}, FALSE) >>,
       \* cell 8
       << Stmt("lookup_mars", {"get_body_barycentric_posvel", "times_vector"},
               {"rr_mars", "vv_mars"}, TRUE) >>,
       \* cells 9, 10
       << Stmt("show", {"rr_mars"}, {}, FALSE) >>,
       << Stmt("show", {"vv_mars"}, {}, FALSE) >>,
       \* cell 11
       << Stmt("r0", {"rr_earth"}, {"r0"}, FALSE),
          Stmt("rf", {"rr_mars"}, {"rf"}, FALSE),
          Stmt("lambert", {"iod", "Sun", "r0", "rf", "tof"}, {"va", "vb"}, TRUE),
          Stmt("ss0_trans", {"Orbit", "Sun", "r0", "va", "date_launch"},
               {"ss0_trans"}, TRUE),
          Stmt("ssf_trans", {"Orbit", "Sun", "rf", "vb", "date_arrival"},
               {"ssf_trans"}, TRUE) >>,
       \* cell 12
       << Stmt("import", {}, {"OrbitPlotter3D", "Earth", "Mars", "FigureWidget"},
               TRUE) >>,
       \* cell 13
       << Stmt("colors", {}, Colors, FALSE),
          Stmt("fig", {"FigureWidget"}, {"fig"}, TRUE),
          Stmt("frame", {"OrbitPlotter3D", "fig"}, {"frame"}, TRUE),
          Stmt("set_attractor", {"frame", "Sun"}, {}, TRUE),
          Stmt("plot_earth", {"frame", "rr_earth", "Earth", "color_earth0"}, {}, TRUE),
          Stmt("plot_mars", {"frame", "rr_mars", "Mars", "color_marsf"}, {}, TRUE),
          Stmt("propagate", {"propagate", "ss0_trans", "time", "times_vector"},
               {}, TRUE),
          Stmt("plot_msl", {"frame", "color_trans"}, {}, TRUE),
          Stmt("set_view", {"frame", "u"}, {}, TRUE),
          Stmt("title", {"fig"}, {}, FALSE),
          Stmt("show_fig", {"fig"}, {}, FALSE) >>,
       \* cell 14: a comment only
       << >>,
       \* cell 15
       << Stmt("import", {}, {"YouTubeVideo"}, TRUE),
          Stmt("YouTubeVideo", {"YouTubeVideo"}, {}, TRUE) >> >>

\* The execution counts recorded in the notebook file, cell by cell.
RecordedCount == <<1, 2, 3, 4, 5, 6, 7, 8, 9, 10, 11, 12, 13, 14, 15>>

\* ------------------------------------------------------------ statements
\* A run state threaded through the statements of a cell:
\* [bound, v, calls, raised, error].

Call(s, name) == [s EXCEPT !.calls = Append(@, name)]

\* Mutant of Raise: the exception is caught and dropped, the run goes on.
RaiseSwallowed(s, exc) == [s EXCEPT !.raised = Append(@, exc)]

\* An exception raised by a statement: no cell has a try block, so it
\* reaches the kernel and ends the run.
Raise(s, exc) == [s EXCEPT !.raised = Append(@, exc), !.error = exc]

\* times_vector[:n]
Head5(seq, n) == SubSeq(seq, 1, IF Len(seq) < n THEN Len(seq) ELSE n)

\* rr_earth, vv_earth = get_body_barycentric_posvel("earth", times_vector)
LookupEarth(kern, s) ==
    LET pv == get_body_barycentric_posvel(
                  EphemerisData(s.v.ephemeris, kern), "earth", s.v.times_vector)
    IN  [s EXCEPT !.v.rr_earth = pv.rr, !.v.vv_earth = pv.vv]

\* Mutant of LookupMars: Mars is looked up over the displayed slice
\* times_vector[:5] only.
LookupMarsOverSlice(kern, s) ==
    LET pv == get_body_barycentric_posvel(
                  EphemerisData(s.v.ephemeris, kern), "mars", Head5(s.v.times_vector, 5))
    IN  [s EXCEPT !.v.rr_mars = pv.rr, !.v.vv_mars = pv.vv]

\* rr_mars, vv_mars = get_body_barycentric_posvel("mars", times_vector)
LookupMars(kern, s) ==
    LET pv == get_body_barycentric_posvel(
                  EphemerisData(s.v.ephemeris, kern), "mars", s.v.times_vector)
    IN  [s EXCEPT !.v.rr_mars = pv.rr, !.v.vv_mars = pv.vv]

\* Mutant of TofStmt: the operands exchanged.
TofStmtReversed(s) == [s EXCEPT !.v.tof = TimeSub(s.v.date_launch, s.v.date_arrival)]

\* tof = date_arrival - date_launch
TofStmt(s) == [s EXCEPT !.v.tof = TimeSub(s.v.date_arrival, s.v.date_launch)]

\* Mutant of TimeRangeStmt: one sample too few.
TimeRangeStmtShort(s) ==
    [s EXCEPT !.v.times_vector =
        time_range(s.v.date_launch, s.v.date_arrival, s.v.N - 1)]

\* times_vector = time_range(date_launch, end=date_arrival, periods=N)
TimeRangeStmt(s) ==
    [s EXCEPT !.v.times_vector = time_range(s.v.date_launch, s.v.date_arrival, s.v.N)]

\* times_vector[:5], as displayed
ShowTimes(s) ==
    [s EXCEPT !.v.shown_times =
        [i \in 1 .. Len(Head5(s.v.times_vector, 5)) |-> FormatIso(s.v.times_vector[i])]]

\* Mutant of BindR0: the vector is moved to another origin before use.
BindR0Shifted(s) == [s EXCEPT !.v.r0 = (s.v.rr_earth[1] + 1) % MaxPos]

\* r0 = rr_earth[0].xyz
BindR0(s) == [s EXCEPT !.v.r0 = s.v.rr_earth[1]]

\* Mutant of BindRf: Mars's position at the first sample, not the last.
BindRfFirst(s) == [s EXCEPT !.v.rf = s.v.rr_mars[1]]

\* rf = rr_mars[-1].xyz
BindRf(s) == [s EXCEPT !.v.rf = s.v.rr_mars[Len(s.v.rr_mars)]]

\* The arguments of iod.lambert(Sun.k, r0, rf, tof)
LambertArgs(s) == [k |-> Sun.k, r0 |-> s.v.r0, rf |-> s.v.rf, tof |-> s.v.tof]

\* Mutant of Unpack1: the first pair is taken, however many there are.
Unpack1First(sols) ==
    IF Len(sols) >= 1
    THEN [ok |-> TRUE, va |-> sols[1][1], vb |-> sols[1][2]]
    ELSE [ok |-> FALSE, va |-> 0, vb |-> 0]

\* (va, vb), = ...: the single-element unpacking of what the solver yields.
Unpack1(sols) ==
    IF Len(sols) = 1
    THEN [ok |-> TRUE, va |-> sols[1][1], vb |-> sols[1][2]]
    ELSE [ok |-> FALSE, va |-> 0, vb |-> 0]

\* Mutant of LambertStmt: Earth's own velocity at launch is taken as the
\* departure velocity.
LambertStmtEarthVelocity(s) ==
    LET a    == LambertArgs(s)
        sols == lambert(a.k, a.r0, a.rf, a.tof)
        u    == Unpack1(sols)
        s1   == [s EXCEPT !.v.solutions = Append(@, sols)]
    IN  IF sols = << >> THEN Raise(s, "Exception")
        ELSE IF u.ok THEN [s1 EXCEPT !.v.va = s.v.vv_earth[1], !.v.vb = u.vb]
        ELSE Raise(s1, "ValueError")

\* (va, vb), = iod.lambert(Sun.k, r0, rf, tof): the solver raises when no
\* orbit connects the points; otherwise what it yields is unpacked.
LambertStmt(s) ==
    LET a    == LambertArgs(s)
        sols == lambert(a.k, a.r0, a.rf, a.tof)
        u    == Unpack1(sols)
        s1   == [s EXCEPT !.v.solutions = Append(@, sols)]
    IN  IF sols = << >> THEN Raise(s, "Exception")
        ELSE IF u.ok THEN [s1 EXCEPT !.v.va = u.va, !.v.vb = u.vb]
        ELSE Raise(s1, "ValueError")

\* Mutant of BindSs0: the arrival velocity attached to the departure point.
BindSs0ArrivalVelocity(s) ==
    [s EXCEPT !.v.ss0_trans = from_vectors(Sun, s.v.r0, s.v.vb, s.v.date_launch)]

\* ss0_trans = Orbit.from_vectors(Sun, r0, va, date_launch)
BindSs0(s) ==
    [s EXCEPT !.v.ss0_trans = from_vectors(Sun, s.v.r0, s.v.va, s.v.date_launch)]

\* ssf_trans = Orbit.from_vectors(Sun, rf, vb, date_arrival)
BindSsf(s) ==
    [s EXCEPT !.v.ssf_trans = from_vectors(Sun, s.v.rf, s.v.vb, s.v.date_arrival)]

\* frame.plot_trajectory(points, label=label, color=color)
PlotTrajectory(s, points, label, color) ==
    [s EXCEPT !.v.frame.trajectories =
        Append(@, [points |-> points, label |-> label, color |-> color])]

\* frame.plot_trajectory(rr_earth, label=Earth, color=color_earth0)
PlotEarth(s) == PlotTrajectory(s, s.v.rr_earth, "Earth", s.v.color_earth0)

\* Mutant of PlotMars: Earth's positions plotted a second time.
PlotMarsWithEarth(s) == PlotTrajectory(s, s.v.rr_earth, "Mars", s.v.color_marsf)

\* frame.plot_trajectory(rr_mars, label=Mars, color=color_marsf)
PlotMars(s) == PlotTrajectory(s, s.v.rr_mars, "Mars", s.v.color_marsf)

\* Mutant of Deltas: the deltas are taken from the arrival orbit's epoch.
DeltasFromArrival(s) ==
    [i \in 1 .. Len(s.v.times_vector) |->
        TimeSub(s.v.times_vector[i], s.v.ssf_trans.epoch)]

\* time.TimeDelta(times_vector - ss0_trans.epoch)
Deltas(s) ==
    [i \in 1 .. Len(s.v.times_vector) |->
        TimeSub(s.v.times_vector[i], s.v.ss0_trans.epoch)]

\* propagate(ss0_trans, time.TimeDelta(times_vector - ss0_trans.epoch))
PropagateStmt(s) ==
    [s EXCEPT !.v.deltas = Deltas(s), !.v.msl = propagate(s.v.ss0_trans, Deltas(s))]

\* frame.plot_trajectory(propagate(...), label="MSL trajectory", color=color_trans)
PlotMsl(s) == PlotTrajectory(s, s.v.msl, "MSL trajectory", s.v.color_trans)

\* The library function a statement calls ("": none).
CallName(op) ==
    CASE op = "import" -> "import"
      [] op = "set_ephemeris" -> "solar_system_ephemeris.set"
      [] op = "time_range" -> "time_range"
      [] op \in {"lookup_earth", "lookup_mars"} -> "get_body_barycentric_posvel"
      [] op = "lambert" -> "iod.lambert"
      [] op \in {"ss0_trans", "ssf_trans"} -> "Orbit.from_vectors"
      [] op = "fig" -> "FigureWidget"
      [] op = "frame" -> "OrbitPlotter3D"
      [] op = "set_attractor" -> "set_attractor"
      [] op \in {"plot_earth", "plot_mars", "plot_msl"} -> "plot_trajectory"
      [] op = "propagate" -> "propagate"
      [] op = "set_view" -> "set_view"
      [] op = "title" -> "fig.layout.title"
      [] op = "YouTubeVideo" -> "YouTubeVideo"
      [] OTHER -> ""

\* The call a statement makes, entered in the log with what it was given.
Invoke(st, s) ==
    LET s1 == IF CallName(st.op) = "" THEN s ELSE Call(s, CallName(st.op))
    IN  CASE st.op = "lambert" ->
               [s1 EXCEPT !.v.lambert_args = Append(@, LambertArgs(s))]
          [] st.op = "lookup_earth" ->
               [s1 EXCEPT !.v.lookups = Append(@, <<"earth", s.v.ephemeris>>)]
          [] st.op = "lookup_mars" ->
               [s1 EXCEPT !.v.lookups = Append(@, <<"mars", s.v.ephemeris>>)]
          [] OTHER -> s1

\* What a statement does when its call returns.
Effect(kern, st, s) ==
    CASE st.op = "set_ephemeris" -> [s EXCEPT !.v.ephemeris = "jpl"]
      [] st.op = "N" -> [s EXCEPT !.v.N = N]
      [] st.op = "date_launch" -> [s EXCEPT !.v.date_launch = TimeUtc(LaunchCivil)]
      [] st.op = "date_arrival" -> [s EXCEPT !.v.date_arrival = TimeUtc(ArrivalCivil)]
      [] st.op = "tof" -> TofStmt(s)
      [] st.op = "show_tof" -> [s EXCEPT !.v.shown_tof = ToHours(s.v.tof)]
      [] st.op = "time_range" -> TimeRangeStmt(s)
      [] st.op = "show_times" -> ShowTimes(s)
      [] st.op = "lookup_earth" -> LookupEarth(kern, s)
      [] st.op = "lookup_mars" -> LookupMars(kern, s)
      [] st.op = "r0" -> BindR0(s)
      [] st.op = "rf" -> BindRf(s)
      [] st.op = "lambert" -> LambertStmt(s)
      [] st.op = "ss0_trans" -> BindSs0(s)
      [] st.op = "ssf_trans" -> BindSsf(s)
      [] st.op = "colors" ->
           [s EXCEPT !.v.color_earth0 = "#3d4cd5", !.v.color_earthf = "#525fd5",
                     !.v.color_mars0 = "#ec3941", !.v.color_marsf = "#ec1f28",
                     !.v.color_sun = "#ffcc00", !.v.color_orbit = "#888888",
                     !.v.color_trans = "#444444"]
      [] st.op = "fig" -> [s EXCEPT !.v.fig = [title |-> "", shown |-> FALSE]]
      [] st.op = "frame" ->
           [s EXCEPT !.v.frame =
               [attractor |-> "none", trajectories |-> << >>, view |-> FALSE]]
      [] st.op = "set_attractor" -> [s EXCEPT !.v.frame.attractor = Sun.name]
      [] st.op = "plot_earth" -> PlotEarth(s)
      [] st.op = "plot_mars" -> PlotMars(s)
      [] st.op = "propagate" -> PropagateStmt(s)
      [] st.op = "plot_msl" -> PlotMsl(s)
      [] st.op = "set_view" -> [s EXCEPT !.v.frame.view = TRUE]
      [] st.op = "title" ->
           [s EXCEPT !.v.fig.title = "MSL Mission: from Earth to Mars"]
      [] st.op = "show_fig" -> [s EXCEPT !.v.fig.shown = TRUE]
      [] OTHER -> s

\* One statement: a name it reads must be bound; its call is made and may
\* raise (fails); when nothing was raised its names are bound.
ExecStmt(kern, st, s, fails) ==
    IF s.error # "none" THEN s
    ELSE IF ~(st.reads \subseteq s.bound) THEN Raise(s, "NameError")
    ELSE IF fails THEN Raise(Invoke(st, s), "Exception")
    ELSE CHOOSE r \in {IF e.error # "none" THEN e
                       ELSE [e EXCEPT !.bound = @ \cup st.binds] :
                       e \in {Effect(kern, st, Invoke(st, s))}} : TRUE

\* The statements of a cell from the i-th on; the failAt-th call raises.
RECURSIVE RunStmts(_, _, _, _, _)
RunStmts(kern, stmts, i, s, failAt) ==
    IF i > Len(stmts) THEN s
    ELSE CHOOSE r \in {RunStmts(kern, stmts, i + 1, x, failAt) :
                          x \in {ExecStmt(kern, stmts[i], s, i = failAt)}} : TRUE

\* The statements of cell c whose call may raise.
FailPoints(c) == {j \in 1 .. Len(Prog[c]) : Prog[c][j].ext}

\* Mutant of NextCell: cell 14 is left out of the run.
NextCellSkipping14(c) == IF c = 13 THEN 15 ELSE c + 1

\* Mutant of NextCell: the imports of cell 12 are left out of the run.
NextCellSkipping12(c) == IF c = 11 THEN 13 ELSE c + 1

\* Mutant of NextCell: after the last cell the run starts over at the first.
NextCellLoop(c) == IF c = 15 THEN 1 ELSE c + 1

\* The cell that runs after cell c: the next one in the document.
NextCell(c) == c + 1

\* ------------------------------------------------------------ the run
Kernels == [earth : States, mars : States]

Init ==
    /\ kernel \in Kernels
    /\ pc = 1
    /\ status = "running"
    /\ execution_count = 0
    /\ In = [c \in Cells |-> 0]
    /\ runs = [c \in Cells |-> 0]
    /\ bound = {}
    /\ v = FreshValues
    /\ calls = << >>
    /\ raised = << >>
    /\ error = "none"
    /\ prev = << >>

\* The kernel runs code cell c: its statements in order, up to the first
\* exception; the cell is given the next execution count.
ExecuteCell(c) ==
    /\ status = "running"
    /\ pc = c
    /\ \E failAt \in {0} \cup FailPoints(c) :
         \E s \in {RunStmts(kernel, Prog[c], 1,
                            [bound |-> bound, v |-> v, calls |-> calls,
                             raised |-> raised, error |-> "none"], failAt)} :
             /\ bound' = s.bound
             /\ v' = s.v
             /\ calls' = s.calls
             /\ raised' = s.raised
             /\ error' = s.error
             /\ status' = IF s.error # "none" THEN "failed"
                          ELSE IF NextCell(c) \in Cells THEN "running" ELSE "done"
             /\ pc' = IF s.error # "none" THEN c ELSE NextCell(c)
    /\ execution_count' = execution_count + 1
    /\ In' = [In EXCEPT ![c] = execution_count + 1]
    /\ runs' = [runs EXCEPT ![c] = @ + 1]
    /\ UNCHANGED <<kernel, prev>>

Cell1 == ExecuteCell(1)
Cell2 == ExecuteCell(2)
Cell3 == ExecuteCell(3)
Cell4 == ExecuteCell(4)
Cell5 == ExecuteCell(5)
Cell6 == ExecuteCell(6)
Cell7 == ExecuteCell(7)
Cell8 == ExecuteCell(8)
Cell9 == ExecuteCell(9)
Cell10 == ExecuteCell(10)
Cell11 == ExecuteCell(11)
Cell12 == ExecuteCell(12)
Cell13 == ExecuteCell(13)
Cell14 == ExecuteCell(14)
Cell15 == ExecuteCell(15)

Next ==
    \/ Cell1 \/ Cell2 \/ Cell3 \/ Cell4 \/ Cell5
    \/ Cell6 \/ Cell7 \/ Cell8 \/ Cell9 \/ Cell10
    \/ Cell11 \/ Cell12 \/ Cell13 \/ Cell14 \/ Cell15

Spec == Init /\ [][Next]_vars

\* The cell being executed comes to its end, with its last statement or
\* with an exception. Under Spec the steps that do this are the steps of
\* Next, and one is possible exactly while the run is running.
CellEnds == status = "running" /\ execution_count' = execution_count + 1

\* The run when every call returns, with a value or with an exception: the
\* cell being executed eventually comes to its end.
SpecFair == Spec /\ WF_execution_count(CellEnds)

\* ------------------------------------------------------------ a second run
\* What a run that obtained a transfer leaves to compare a later run with:
\* what it gave the solver, what it bound, and Earth's velocity at launch.
Transfer ==
    [args |-> v.lambert_args[1], va |-> v.va, vb |-> v.vb, vv0 |-> v.vv_earth[1]]

\* After a complete run the script is run again from a fresh kernel, against
\* any ephemeris.
RunAgain ==
    /\ status = "done"
    /\ prev = << >>
    /\ prev' = <<Transfer>>
    /\ kernel' \in Kernels
    /\ pc' = 1
    /\ status' = "running"
    /\ execution_count' = 0
    /\ In' = [c \in Cells |-> 0]
    /\ runs' = [c \in Cells |-> 0]
    /\ bound' = {}
    /\ v' = FreshValues
    /\ calls' = << >>
    /\ raised' = << >>
    /\ error' = "none"

NextTwoRuns == Next \/ RunAgain

SpecTwoRuns == Init /\ [][NextTwoRuns]_vars

\* ------------------------------------------------------------ properties
Range(seq) == {seq[i] : i \in 1 .. Len(seq)}

\* The positions in the call log at which `name` was called.
CallsOf(name) == {i \in 1 .. Len(calls) : calls[i] = name}

\* The names whose value is a field of v.
ValueNames == (UNION {st.binds : st \in UNION {Range(Prog[c]) : c \in Cells}})
                  \cap DOMAIN FreshValues

Launch == TimeUtc(LaunchCivil)
Arrival == TimeUtc(ArrivalCivil)

\* C1: the cells run one after the other in document order, each at most
\* once and, in a run that completes, exactly once; the execution count a
\* cell runs under is the one recorded for it in the notebook, so the counts
\* 1 .. 15 increase from the first code cell to the last, and a cell has run
\* only when every cell before it has.
C1_LinearOrder ==
    /\ \A c \in Cells : runs[c] <= 1
    /\ \A c \in Cells : runs[c] = 1 => In[c] = RecordedCount[c]
    /\ \A c, d \in Cells : (c < d /\ runs[d] = 1) => (runs[c] = 1 /\ In[c] < In[d])
    /\ execution_count = Cardinality({c \in Cells : runs[c] = 1})
    /\ status = "done" => \A c \in Cells : runs[c] = 1
    /\ status = "running" => (pc \in Cells /\ \A c \in Cells : runs[c] = 1 <=> c < pc)

C1_Witness ==
    /\ status = "done"
    /\ \A c \in Cells : runs[c] = 1
    /\ In[1] = 1
    /\ In[15] = 15

\* C2: an exception raised by a call is not handled: the first one raised
\* ends the run as its error, the step that raises it leaves every name
\* bound before it bound to the same value, and after it nothing runs: no
\* retry, no further call, no change of any variable.
C2_FailurePropagates ==
    [][/\ raised' # << >> =>
            /\ status' = "failed"
            /\ Len(raised') = 1
            /\ error' = raised'[1]
       /\ raised # << >> => UNCHANGED vars
       /\ status' = "failed" =>
            /\ pc' = pc
            /\ bound \subseteq bound'
            /\ \A n \in bound \cap ValueNames : v'[n] = v[n]]_vars

C2_Witness ==
    /\ status = "failed"
    /\ error = "Exception"
    /\ calls[Len(calls)] = "iod.lambert"
    /\ {"r0", "rf", "rr_earth", "tof"} \subseteq bound
    /\ "va" \notin bound
    /\ pc = 11

\* C3: the Lambert solver is called at most once, and exactly once in a run
\* that completes, with the Sun's parameter, r0 Earth's position at the
\* first time sample (the launch date), rf Mars's position at the last time
\* sample (the arrival date) and tof = date_arrival - date_launch; the
\* departure orbit is (r0, va) at date_launch and the arrival orbit (rf, vb)
\* at date_arrival, va and vb being the pair the solver returned.
C3_LambertCall ==
    /\ Len(v.lambert_args) <= 1
    /\ Cardinality(CallsOf("iod.lambert")) = Len(v.lambert_args)
    /\ status = "done" => Len(v.lambert_args) = 1
    /\ \A i \in 1 .. Len(v.lambert_args) :
         LET a == v.lambert_args[i]
         IN  /\ a.k = Sun.k
             /\ a.r0 = v.rr_earth[1]
             /\ v.times_vector[1] = Launch
             /\ a.r0 = BodyState(kernel, "earth", Launch).r
             /\ a.rf = v.rr_mars[Len(v.rr_mars)]
             /\ v.times_vector[Len(v.times_vector)] = Arrival
             /\ a.rf = BodyState(kernel, "mars", Arrival).r
             /\ a.tof = TimeSub(Arrival, Launch)
    /\ "ss0_trans" \in bound =>
         v.ss0_trans = [attractor |-> "Sun", k |-> Sun.k, r |-> v.lambert_args[1].r0,
                        v |-> v.solutions[1][1][1], epoch |-> Launch]
    /\ "ssf_trans" \in bound =>
         v.ssf_trans = [attractor |-> "Sun", k |-> Sun.k, r |-> v.lambert_args[1].rf,
                        v |-> v.solutions[1][1][2], epoch |-> Arrival]

C3_Witness ==
    /\ status = "done"
    /\ Len(v.lambert_args) = 1
    /\ v.rr_mars[1] # v.rr_mars[Len(v.rr_mars)]
    /\ v.ss0_trans.v # v.ssf_trans.v
    /\ {"ss0_trans", "ssf_trans"} \subseteq bound

\* C4: the transfer orbit connects the two points in the given time: the
\* departure orbit propagated by a zero time delta is at r0, and propagated
\* by tof it is at rf with velocity vb, the state of the arrival orbit at
\* date_arrival = date_launch + tof; the plotted MSL trajectory starts at
\* Earth's launch position and ends at Mars's arrival position.
C4_TransferConnects ==
    /\ "ss0_trans" \in bound =>
         /\ propagate1(v.ss0_trans, ZeroTime).r = v.rr_earth[1]
         /\ propagate1(v.ss0_trans, v.tof) = [r |-> v.rr_mars[N], v |-> v.vb]
    /\ "ssf_trans" \in bound =>
         /\ propagate1(v.ss0_trans, v.tof) = [r |-> v.ssf_trans.r, v |-> v.ssf_trans.v]
         /\ v.ssf_trans.epoch = TimeAdd(v.ss0_trans.epoch, v.tof)
    /\ Len(v.frame.trajectories) = 3 =>
         /\ v.frame.trajectories[3].points[1] = v.rr_earth[1]
         /\ v.frame.trajectories[3].points[N] = v.rr_mars[N]

C4_Witness ==
    /\ status = "done"
    /\ Len(v.frame.trajectories) = 3
    /\ v.frame.trajectories[3].points[N] = v.rr_mars[N]
    /\ v.va # v.vb
    /\ v.r0 # v.rf

\* C5: the time of flight is the time elapsed from 2011-11-26 15:02 UTC to
\* 2012-08-06 05:17 UTC: it is positive, 21,910,501 seconds, displayed as
\* 6086.25027778 hours, and it is the value the Lambert solver is given.
C5_TimeOfFlight ==
    /\ "tof" \in bound =>
         /\ FormatIso(v.date_launch) =
              [y |-> 2011, mo |-> 11, d |-> 26, h |-> 15, mi |-> 2, sec |-> 0, ms |-> 0]
         /\ FormatIso(v.date_arrival) =
              [y |-> 2012, mo |-> 8, d |-> 6, h |-> 5, mi |-> 17, sec |-> 0, ms |-> 0]
         /\ v.tof = [s |-> 21910501, f |-> 0]
         /\ TimeLess(ZeroTime, v.tof)
         /\ TimeAdd(v.date_launch, v.tof) = v.date_arrival
    /\ pc > 3 => v.shown_tof = [whole |-> 6086, dec8 |-> 25027778]
    /\ \A a \in Range(v.lambert_args) : a.tof = v.tof /\ a.tof.s = 21910501

C5_Witness ==
    /\ Len(v.lambert_args) = 1
    /\ v.lambert_args[1].tof.s = 21910501
    /\ v.shown_tof = [whole |-> 6086, dec8 |-> 25027778]

\* The first entries of times_vector as the notebook's output of cell 4
\* records them.
RecordedTimes ==
    << [y |-> 2011, mo |-> 11, d |-> 26, h |-> 15, mi |-> 2, sec |-> 0, ms |-> 0],
       [y |-> 2011, mo |-> 12, d |-> 1, h |-> 19, mi |-> 14, sec |-> 33, ms |-> 82],
       [y |-> 2011, mo |-> 12, d |-> 6, h |-> 23, mi |-> 27, sec |-> 6, ms |-> 163],
       [y |-> 2011, mo |-> 12, d |-> 12, h |-> 3, mi |-> 39, sec |-> 39, ms |-> 245],
       [y |-> 2011, mo |-> 12, d |-> 17, h |-> 7, mi |-> 52, sec |-> 12, ms |-> 327] >>

\* 5 d 4 h 12 min 33 s and 4/49 s: a 49th of the time of flight.
SampleStep == [s |-> 5 * 86400 + 4 * 3600 + 12 * 60 + 33, f |-> 4]

\* C6: times_vector has exactly N = 50 entries, the first date_launch, the
\* last date_arrival, strictly increasing, any two consecutive ones apart
\* by the same step tof / (N - 1), about 5 d 4 h 12 min 33.082 s; its first
\* five entries are displayed as recorded.
C6_TimesVector ==
    /\ "times_vector" \in bound =>
         /\ N = 50
         /\ Len(v.times_vector) = N
         /\ v.times_vector[1] = v.date_launch
         /\ v.times_vector[N] = v.date_arrival
         /\ \A i \in 1 .. (N - 1) :
              /\ TimeLess(v.times_vector[i], v.times_vector[i + 1])
              /\ TimeSub(v.times_vector[i + 1], v.times_vector[i]) = SampleStep
         /\ DeltaFraction(v.tof, 1, N - 1) = SampleStep
         /\ SampleStep.s * (N - 1) + SampleStep.f = v.tof.s
         /\ (2 * SampleStep.f * 1000 + Den) \div (2 * Den) = 82
    /\ pc > 4 => v.shown_times = RecordedTimes

C6_Witness ==
    /\ "times_vector" \in bound
    /\ Len(v.times_vector) = 50
    /\ v.shown_times = RecordedTimes
    /\ v.times_vector[50] = Arrival

\* C7: the plotter is given exactly three trajectories, Earth's positions,
\* then Mars's, then the propagated transfer, each after the attractor was
\* set to the Sun; the view and the title are set only when all three are
\* plotted; nothing is saved to a file.
C7_PlotOrder ==
    LET tr == v.frame.trajectories
    IN  /\ Len(tr) <= 3
        /\ Cardinality(CallsOf("plot_trajectory")) <= 3
        /\ Cardinality(CallsOf("set_attractor")) <= 1
        /\ \A i \in CallsOf("plot_trajectory") :
             \E j \in CallsOf("set_attractor") : j < i
        /\ Len(tr) >= 1 =>
             (v.frame.attractor = "Sun" /\ tr[1].points = v.rr_earth /\ tr[1].label = "Earth")
        /\ Len(tr) >= 2 => (tr[2].points = v.rr_mars /\ tr[2].label = "Mars")
        /\ Len(tr) >= 3 =>
             /\ tr[3].points = propagate(v.ss0_trans, v.deltas)
             /\ tr[3].label = "MSL trajectory"
        /\ \A i \in CallsOf("set_view") \cup CallsOf("fig.layout.title") :
             /\ Len(tr) = 3
             /\ \A j \in CallsOf("plot_trajectory") : j < i
             /\ Cardinality(CallsOf("plot_trajectory")) = 3
        /\ (v.frame.view \/ v.fig.title # "") => Len(tr) = 3
        /\ CallsOf("savefig") = {}
        /\ status = "done" => (Len(tr) = 3 /\ v.frame.view /\ v.fig.shown)

C7_Witness ==
    /\ status = "done"
    /\ Len(v.frame.trajectories) = 3
    /\ v.frame.trajectories[1].points # v.frame.trajectories[2].points
    /\ v.frame.view
    /\ v.fig.title = "MSL Mission: from Earth to Mars"

BoundAt(c, j) == bound \cup UNION {Prog[c][i].binds : i \in 1 .. (j - 1)}

\* C10: no cell reads an unbound name: NameError is never raised, every
\* name a statement of the next cell reads was bound by an earlier cell or
\* an earlier statement; both body lookups use the "jpl" ephemeris; the
\* call of each library function finds its arguments bound.
C10_BoundBeforeUse ==
    /\ "NameError" \notin Range(raised)
    /\ status = "running" =>
         \A j \in 1 .. Len(Prog[pc]) : Prog[pc][j].reads \subseteq BoundAt(pc, j)
    /\ \A l \in Range(v.lookups) : l[2] = "jpl"
    /\ CallsOf("time_range") # {} => {"date_launch", "date_arrival", "N"} \subseteq bound
    /\ CallsOf("get_body_barycentric_posvel") # {} => "times_vector" \in bound
    /\ CallsOf("iod.lambert") # {} => {"rr_earth", "rr_mars", "tof", "r0", "rf"} \subseteq bound
    /\ CallsOf("Orbit.from_vectors") # {} => {"va", "vb"} \subseteq bound
    /\ CallsOf("propagate") # {} => "ss0_trans" \in bound
    /\ CallsOf("FigureWidget") # {} => {"FigureWidget", "OrbitPlotter3D"} \subseteq bound

C10_Witness ==
    /\ status = "done"
    /\ raised = << >>
    /\ v.lookups = << <<"earth", "jpl">>, <<"mars", "jpl">> >>
    /\ CallsOf("propagate") # {}
    /\ {"fig", "frame", "ss0_trans", "times_vector"} \subseteq bound

\* C11: the time deltas handed to the propagator are never negative: the
\* epoch of ss0_trans is date_launch, there are exactly N deltas, the first
\* is zero, the last is tof and they increase strictly, so the orbit is
\* only ever advanced forward from its epoch.
C11_DeltasForward ==
    /\ "ss0_trans" \in bound =>
         LET d == Deltas([v |-> v])
         IN  /\ v.ss0_trans.epoch = v.date_launch
             /\ Len(d) = N
             /\ d[1] = ZeroTime
             /\ d[N] = v.tof
             /\ \A i \in 1 .. N : d[i].s >= 0 /\ d[i].f >= 0
             /\ \A i \in 1 .. (N - 1) : TimeLess(d[i], d[i + 1])
    /\ CallsOf("propagate") # {} => "ss0_trans" \in bound
    /\ v.deltas # << >> =>
         /\ v.deltas = Deltas([v |-> v])
         /\ Len(v.msl) = N

C11_Witness ==
    /\ status = "done"
    /\ Len(v.deltas) = N
    /\ v.deltas[1] = ZeroTime
    /\ v.deltas[N] = v.tof
    /\ TimeLess(ZeroTime, v.deltas[2])

\* The state the "jpl" ephemeris gives a body at the i-th time sample.
SampleState(body, i) ==
    BodyState(EphemerisData("jpl", kernel), body, v.times_vector[i])

\* C12: Earth and Mars are looked up over the same times_vector with the
\* same ephemeris source, so rr_earth, vv_earth, rr_mars and vv_mars have
\* exactly N entries each, entry i being the body's state at
\* times_vector[i]; the three plotted trajectories have N points each, the
\* i-th point of each belonging to the instant times_vector[i].
C12_IndexAligned ==
    /\ "rr_earth" \in bound =>
         /\ "vv_earth" \in bound
         /\ Len(v.rr_earth) = N
         /\ Len(v.vv_earth) = N
         /\ \A i \in 1 .. N :
              SampleState("earth", i) = [r |-> v.rr_earth[i], v |-> v.vv_earth[i]]
    /\ "rr_mars" \in bound =>
         /\ "vv_mars" \in bound
         /\ Len(v.rr_mars) = N
         /\ Len(v.vv_mars) = N
         /\ \A i \in 1 .. N :
              SampleState("mars", i) = [r |-> v.rr_mars[i], v |-> v.vv_mars[i]]
    /\ \A l \in Range(v.lookups) : l[2] = v.ephemeris
    /\ Len(v.lookups) = 2 => v.lookups[1][2] = v.lookups[2][2]
    /\ \A j \in 1 .. Len(v.frame.trajectories) :
         Len(v.frame.trajectories[j].points) = N
    /\ Len(v.frame.trajectories) = 3 =>
         \A i \in 1 .. N :
            /\ v.frame.trajectories[1].points[i] = SampleState("earth", i).r
            /\ v.frame.trajectories[2].points[i] = SampleState("mars", i).r
            /\ v.frame.trajectories[3].points[i] =
                 propagate1(v.ss0_trans,
                            TimeSub(v.times_vector[i], v.times_vector[1])).r

C12_Witness ==
    /\ status = "done"
    /\ Len(v.frame.trajectories) = 3
    /\ Len(v.rr_earth) = 50
    /\ Len(v.vv_mars) = 50
    /\ v.rr_mars[2] = SampleState("mars", 2).r
    /\ v.rr_mars[2] # v.rr_mars[3]
    /\ v.rr_earth[2] # v.rr_mars[2]

\* C13: the position vectors the ephemeris returns are used as they are, in
\* the frame they came in: r0 is exactly rr_earth[0] and rf exactly
\* rr_mars[-1], the solver and the two orbits (attractor Sun) are given
\* these very vectors, and the plotter (attractor Sun) is given rr_earth and
\* rr_mars unchanged; nothing in the script converts a vector to another
\* frame or origin.
C13_VectorsUnchanged ==
    /\ "r0" \in bound => v.r0 = SampleState("earth", 1).r
    /\ "rf" \in bound => v.rf = SampleState("mars", N).r
    /\ \A a \in Range(v.lambert_args) :
         /\ a.r0 = SampleState("earth", 1).r
         /\ a.rf = SampleState("mars", N).r
    /\ "ss0_trans" \in bound =>
         (v.ss0_trans.r = SampleState("earth", 1).r /\ v.ss0_trans.attractor = Sun.name)
    /\ "ssf_trans" \in bound =>
         (v.ssf_trans.r = SampleState("mars", N).r /\ v.ssf_trans.attractor = Sun.name)
    /\ \A j \in 1 .. Len(v.frame.trajectories) :
         /\ v.frame.attractor = Sun.name
         /\ j = 1 => v.frame.trajectories[j].points = v.rr_earth
         /\ j = 2 => v.frame.trajectories[j].points = v.rr_mars
         /\ j = 3 => v.frame.trajectories[j].points[1] = SampleState("earth", 1).r
    /\ \A n \in {"rr_earth", "rr_mars"} \cap bound :
         \A i \in 1 .. N :
            v[n][i] = SampleState(IF n = "rr_earth" THEN "earth" ELSE "mars", i).r

C13_Witness ==
    /\ status = "done"
    /\ v.lambert_args[1].r0 = v.rr_earth[1]
    /\ v.lambert_args[1].rf = v.rr_mars[50]
    /\ v.ss0_trans.r = v.rr_earth[1]
    /\ v.frame.attractor = "Sun"
    /\ v.frame.trajectories[2].points = v.rr_mars
    /\ v.rr_earth[1] # 0

\* The run has ended: every cell has completed, or a call's exception has
\* stopped it.
Terminated == status \in {"done", "failed"}

\* How a run stands: still running with the cells before pc completed once
\* each and nothing raised; ended with all cells completed; or stopped in
\* cell pc by the one exception raised, with no later cell run.
RunShape ==
    /\ \A c \in Cells : runs[c] <= 1
    /\ status = "running" =>
         /\ raised = << >> /\ error = "none"
         /\ pc \in Cells /\ execution_count = pc - 1
         /\ \A c \in Cells : runs[c] = (IF c < pc THEN 1 ELSE 0)
    /\ status = "done" =>
         /\ raised = << >> /\ error = "none"
         /\ execution_count = 15
         /\ \A c \in Cells : runs[c] = 1
    /\ status = "failed" =>
         /\ Len(raised) = 1 /\ error # "none"
         /\ pc \in Cells /\ execution_count = pc
         /\ \A c \in Cells : runs[c] = (IF c <= pc THEN 1 ELSE 0)

\* C14: when every external call returns, the run always terminates, and it
\* stays terminated: no cell is executed twice, and the run ends in exactly
\* one of two ways, with all 15 code cells completed and nothing raised, or
\* stopped in the cell of the first (and only) exception with no later cell
\* run.
C14_Terminates == <>[]Terminated /\ []RunShape

C14_Witness ==
    /\ status = "failed"
    /\ pc = 13
    /\ Len(raised) = 1
    /\ runs[13] = 1 /\ runs[14] = 0
    /\ execution_count = 13

====
